---- MODULE Spec2Model ----
(***************************************************************************)
(* Model of apps/server/src/cleanup.ts: the maintenance run                *)
(* cleanupEventsDB() (retention, compaction, backup rotation, schema       *)
(* re-creation) and the monitoring entry point getDatabaseStats().         *)
(*                                                                         *)
(* One action per statement of cleanupEventsDB that touches the database   *)
(* or the file system; pc names the statement that runs next.  Times are   *)
(* milliseconds counted from a model origin (TLC integers are 32 bit, so   *)
(* the origin is not 1970); every duration and threshold keeps its value.  *)
(* An event row carries the columns the statements read or write; a        *)
(* payload is its LENGTH and the members json_extract reads.               *)
(***************************************************************************)
EXTENDS Integers, Sequences, FiniteSets, TLC

VARIABLES
    clock,          \* Date.now(): the wall clock
    live,           \* the file at 'events.db'
    backupsDir,     \* existsSync('backups')
    backups,        \* the files in backups/, a set of [name, file]
    pc,             \* the statement of cleanupEventsDB that runs next
    log,            \* console output of the current (or last) run
    sevenDaysAgo,   \* local of cleanupEventsDB (line 18)
    oneDayAgo,      \* local of cleanupEventsDB (line 23)
    now,            \* local of cleanupEventsDB (line 39)
    initialSize,    \* local of cleanupEventsDB (line 14)
    finalSize,      \* local of cleanupEventsDB (line 60)
    backupName,     \* local of cleanupEventsDB (line 74)
    handles,        \* Database handles of the running operation that are open
    leaked,         \* handles left open by operations that have returned
    propagated,     \* an exception has left cleanupEventsDB
    stats,          \* the value getDatabaseStats returned last
    statsOutcome,   \* how the last getDatabaseStats ended
    pre,            \* history: the file system when the current run started
    hist,           \* history: the last statement a run executed, with the
                    \* file system before and after it
    renamed,        \* history: the file the last successful rename moved
    statsHist,      \* history: the file system before and after the last
                    \* getDatabaseStats, its clock, and the line that threw
    runs,           \* calls of cleanupEventsDB so far
    envSteps,       \* steps of the environment so far (clock, inserts, stats)
    nextId          \* the id the next inserted event gets

vars == <<clock, live, backupsDir, backups, pc, log, sevenDaysAgo, oneDayAgo, now,
          initialSize, finalSize, backupName, handles, leaked, propagated,
          stats, statsOutcome, pre, hist, renamed, statsHist, runs, envSteps,
          nextId>>

----------------------------------------------------------------------------
(* Bounds of the model *)
MaxRuns       == 2     \* calls of cleanupEventsDB
MaxEnvSteps   == 1     \* clock ticks, inserts and stats calls, together
MaxInitEvents == 1     \* events in the store at Init
MaxInitShares == 1     \* theme shares in the store at Init
MaxLeaked     == 1     \* leaked handles are counted up to this many

(* Program constants *)
SEVEN_DAYS      == 7 * 24 * 60 * 60 * 1000
ONE_DAY         == 24 * 60 * 60 * 1000
PAYLOAD_LIMIT   == 10000
ROTATE_LIMIT    == 50 * 1024 * 1024
SQL_TRUE        == 1
MARKER_OVERHEAD == 79
PAGE_SIZE       == 4096

(* The clock at Init, in ms since the model origin *)
T0 == 1000000000

----------------------------------------------------------------------------
(* SQL values: NULL or a text of len characters *)
NULL == [null |-> TRUE, text |-> "", len |-> 0]
Str(t, n) == [null |-> FALSE, text |-> t, len |-> n]

(* members of a JSON object: absent, or present with an SQL value *)
Absent == [present |-> FALSE, value |-> NULL]
Member(v) == [present |-> TRUE, value |-> v]

RECURSIVE Digits(_)
Digits(n) == IF n < 10 THEN 1 ELSE 1 + Digits(n \div 10)

(* length of the JSON text json_object() writes for one value:
   null, or the text between quotes *)
JsonValueLen(v) == IF v.null THEN 4 ELSE v.len + 2

(* json_extract(payload, '$.key'): NULL when the member is absent or null *)
JsonExtract(p, key) == IF p[key].present THEN p[key].value ELSE NULL

(* LENGTH(payload) *)
Length(p) == p.len

(* LENGTH of json_object('truncated', true, 'original_size', n,
   'source_app', a, 'session_id', s, 'hook_event_name', h) *)
JsonObjectLen(n, a, s, h) ==
    MARKER_OVERHEAD + Digits(n) + JsonValueLen(a) + JsonValueLen(s) + JsonValueLen(h)

(* mutant: 'original_size' read from the payload already replaced *)
MarkerSizeOfMarker(p) ==
    [len |-> JsonObjectLen(Length(p), JsonExtract(p, "source_app"),
                           JsonExtract(p, "session_id"),
                           JsonExtract(p, "hook_event_name")),
     truncated       |-> SQL_TRUE,
     original_size   |-> JsonObjectLen(Length(p), JsonExtract(p, "source_app"),
                                       JsonExtract(p, "session_id"),
                                       JsonExtract(p, "hook_event_name")),
     source_app      |-> Member(JsonExtract(p, "source_app")),
     session_id      |-> Member(JsonExtract(p, "session_id")),
     hook_event_name |-> Member(JsonExtract(p, "hook_event_name"))]

(* the SET payload = json_object(...) expression of the UPDATE: every
   member is present in the object written *)
Marker(p) ==
    [len |-> JsonObjectLen(Length(p), JsonExtract(p, "source_app"),
                           JsonExtract(p, "session_id"),
                           JsonExtract(p, "hook_event_name")),
     truncated       |-> SQL_TRUE,
     original_size   |-> Length(p),
     source_app      |-> Member(JsonExtract(p, "source_app")),
     session_id      |-> Member(JsonExtract(p, "session_id")),
     hook_event_name |-> Member(JsonExtract(p, "hook_event_name"))]

(* mutant: the age condition of the WHERE dropped *)
TruncateWhereAnyAge(e, cut) == Length(e.payload) > PAYLOAD_LIMIT

(* WHERE LENGTH(payload) > 10000 AND timestamp < ? *)
TruncateWhere(e, cut) == Length(e.payload) > PAYLOAD_LIMIT /\ e.timestamp < cut

(* UPDATE events SET payload = json_object(...) WHERE ... *)
TruncateRows(events, cut) ==
    {IF TruncateWhere(e, cut) THEN [e EXCEPT !.payload = Marker(e.payload)] ELSE e
        : e \in events}

(* mutant: timestamp <= ? *)
AgeWhereInclusive(e, cut) == e.timestamp <= cut

(* WHERE timestamp < ? of the DELETE *)
AgeWhere(e, cut) == e.timestamp < cut

(* DELETE FROM events WHERE timestamp < ? *)
AgeDeleteRows(events, cut) == {e \in events : ~AgeWhere(e, cut)}

(* mutant: a NULL expiresAt compared as the number 0 *)
ShareWhereNullAsZero(s, t) == s.expiresAt < t

(* WHERE expiresAt IS NOT NULL AND expiresAt < ? *)
ShareWhere(s, t) == ~s.expiresNull /\ s.expiresAt < t

(* DELETE FROM theme_shares WHERE ... *)
ExpireRows(shares, t) == {s \in shares : ~ShareWhere(s, t)}

----------------------------------------------------------------------------
(* Files *)
AllTables == {"events", "themes", "theme_shares", "theme_ratings"}

NoFile == [exists |-> FALSE, size |-> 0, tables |-> {}, events |-> {},
           shares |-> {}, themes |-> {}, ratings |-> {}]

(* what new Database(path) leaves at a path that held no file *)
CreatedFile == [NoFile EXCEPT !.exists = TRUE]

(* new Database('events.db'): opens the file, creating it when absent *)
OpenDatabase(f) == IF f.exists THEN f ELSE CreatedFile

(* db.exec('PRAGMA journal_mode = WAL'): a new file gets its header page *)
PragmaWal(f) == IF f.size = 0 THEN [f EXCEPT !.size = PAGE_SIZE] ELSE f

(* CREATE TABLE IF NOT EXISTS t: rows of an existing table are kept *)
CreateTable(f, t) == [f EXCEPT !.tables = @ \cup {t}]

(* Bun.file('events.db').size *)
FileSize(f) == IF f.exists THEN f.size ELSE 0

(* mutant: the size test of line 65 dropped, every run rotates *)
OversizedAlways(size) == TRUE

(* mutant: finalSize >= 50 * 1024 * 1024 *)
OversizedInclusive(size) == size >= ROTATE_LIMIT

(* if (finalSize > 50 * 1024 * 1024) *)
Oversized(size) == size > ROTATE_LIMIT

(* new Date().toISOString().replace(/[:.]/g, '-'): day, hour, minute,
   second and millisecond fields of the instant, in fixed positions *)
ToISOString(t) ==
    <<t \div 86400000, (t \div 3600000) % 24, (t \div 60000) % 60,
      (t \div 1000) % 60, t % 1000>>

(* `backups/events_${timestamp}.db` *)
BackupNameOf(t) == <<"backups/events_", ToISOString(t), ".db">>

(* renameSync('events.db', backupName): an existing target is replaced *)
RenameInto(bs, name, f) == {b \in bs : b.name # name} \cup {[name |-> name, file |-> f]}

Fs == [live |-> live, backups |-> backups, dir |-> backupsDir]

----------------------------------------------------------------------------
(* The inputs: stores the program can find at 'events.db' *)
SizeSet == {PAGE_SIZE, ROTATE_LIMIT, ROTATE_LIMIT + 1}

InitTimestamps ==
    {T0 - SEVEN_DAYS - 1, T0 - SEVEN_DAYS, T0 - ONE_DAY - 1, T0 - ONE_DAY, T0}

RawPayload(n, a, s, h) ==
    [len |-> n, truncated |-> 0, original_size |-> 0,
     source_app |-> a, session_id |-> s, hook_event_name |-> h]

(* payloads at and over the limit; with and without a source_app member;
   one whose session_id member alone is as long as the limit *)
InitPayloads ==
    { RawPayload(PAYLOAD_LIMIT, Absent, Member(Str("s1", 36)),
                 Member(Str("PreToolUse", 10))),
      RawPayload(PAYLOAD_LIMIT + 1, Absent, Member(Str("s1", 36)),
                 Member(Str("PreToolUse", 10))),
      RawPayload(12000, Member(Str("app", 3)), Member(Str("s2", 36)),
                 Member(Str("Stop", 4))),
      RawPayload(PAYLOAD_LIMIT + 100, Absent, Member(Str("long", PAYLOAD_LIMIT)),
                 Member(NULL)) }

EventRow(i, t, p) ==
    [id |-> i, source_app |-> "app", session_id |-> "s1",
     hook_event_type |-> "PreToolUse", payload |-> p, timestamp |-> t]

InitEventSets ==
    UNION { { {EventRow(i, f[i][1], f[i][2]) : i \in 1..k}
              : f \in [1..k -> InitTimestamps \X InitPayloads] }
            : k \in 0..MaxInitEvents }

ShareRow(i, isNull, t, n) ==
    [id |-> i, themeId |-> "t1", expiresNull |-> isNull, expiresAt |-> t,
     accessCount |-> n]

InitShareKinds ==
    { <<TRUE, 0, 3>>, <<FALSE, T0 - 1, 2>>, <<FALSE, T0, 1>>, <<FALSE, T0 + 1, 4>> }

InitShareSets ==
    UNION { { {ShareRow(i, f[i][1], f[i][2], f[i][3]) : i \in 1..k}
              : f \in [1..k -> InitShareKinds] }
            : k \in 0..MaxInitShares }

StoreFile(es, ss) ==
    [exists |-> TRUE, size |-> ROTATE_LIMIT + 1, tables |-> AllTables,
     events |-> es, shares |-> ss, themes |-> {"t1"}, ratings |-> {"r1"}]

(* no file yet; or an oversized file (VACUUM decides what is left of the
   size) holding any of the event sets, or any of the share sets *)
InitFiles ==
    {NoFile} \cup {StoreFile(es, {}) : es \in InitEventSets}
             \cup {StoreFile({}, ss) : ss \in InitShareSets}

(* lines 210-218 *)
Sentinel ==
    [size |-> 0, totalEvents |-> 0, eventsLast7Days |-> 0, oldEvents |-> 0,
     largePayloads |-> 0, lastCleanup |-> <<"Never">>]

Init ==
    /\ clock = T0
    /\ live \in InitFiles
    /\ backupsDir = FALSE
    /\ backups = {}
    /\ pc = "Idle"
    /\ log = <<>>
    /\ sevenDaysAgo = 0 /\ oneDayAgo = 0 /\ now = 0
    /\ initialSize = 0 /\ finalSize = 0
    /\ backupName = <<>>
    /\ handles = {}
    /\ leaked = 0
    /\ propagated = FALSE
    /\ stats = Sentinel
    /\ statsOutcome = "none"
    /\ pre = Fs
    /\ hist = [name |-> "none", ok |-> TRUE, at |-> T0, before |-> Fs, after |-> Fs]
    /\ renamed = NoFile
    /\ statsHist = [threwAt |-> 0, at |-> T0, before |-> Fs, after |-> Fs]
    /\ runs = 0 /\ envSteps = 0
    /\ nextId = MaxInitEvents + 1

----------------------------------------------------------------------------
(* cleanupEventsDB, statement by statement *)

(* source line of each statement *)
Line(s) ==
    CASE s = "Open" -> 8          [] s = "Pragma" -> 11
      [] s = "InitSize" -> 14     [] s = "AgeDelete" -> 19
      [] s = "Truncate" -> 35     [] s = "ExpireShares" -> 43
      [] s = "Vacuum" -> 48       [] s = "Reindex" -> 52
      [] s = "Analyze" -> 55      [] s = "Close" -> 57
      [] s = "FinalSize" -> 60    [] s = "SizeCheck" -> 65
      [] s = "Mkdir" -> 69        [] s = "Rename" -> 75
      [] s = "NewOpen" -> 79      [] s = "NewPragma" -> 82
      [] s = "CreateEvents" -> 86 [] s = "CreateThemes" -> 100
      [] s = "CreateShares" -> 120 [] s = "CreateRatings" -> 135
      [] s = "CreateIndexes" -> 149 [] s = "NewClose" -> 159
      [] s = "Done" -> 164

(* the statements that call into the database or the file system *)
Throwing ==
    {"Open", "Pragma", "InitSize", "AgeDelete", "Truncate", "ExpireShares",
     "Vacuum", "Reindex", "Analyze", "Close", "FinalSize", "Mkdir", "Rename",
     "NewOpen", "NewPragma", "CreateEvents", "CreateThemes", "CreateShares",
     "CreateRatings", "CreateIndexes", "NewClose"}

(* mutant: the try block closed after db.close() of line 57 *)
InTryUntilClose(s) == Line(s) > 7 /\ Line(s) < 58

(* try { ... } catch of cleanupEventsDB spans lines 7 to 165 *)
InTry(s) == Line(s) > 7 /\ Line(s) < 165

(* mutant: VACUUM wrapped in a catch of its own that goes on to REINDEX *)
AfterCatchSkipVacuum(s) == IF s = "Vacuum" THEN "Reindex" ELSE "Idle"

(* mutant: the rename wrapped in a catch of its own that goes on to
   re-create the schema *)
AfterCatchResume(s) == IF s = "Rename" THEN "NewOpen" ELSE "Idle"

(* where control goes once the catch of lines 165-167 has logged the error
   thrown by statement s: to the end of the function *)
AfterCatch(s) == "Idle"

Saturate(n) == IF n > MaxLeaked THEN MaxLeaked ELSE n

Locals == <<sevenDaysAgo, oneDayAgo, now, initialSize, finalSize, backupName>>
Counters == <<runs, envSteps, nextId>>
StatsVars == <<stats, statsOutcome, statsHist>>

(* a statement completes: the file system becomes l, b, d; control moves on *)
Did(name, next, l, b, d, msgs) ==
    /\ pc = name
    /\ pc' = next
    /\ live' = l /\ backups' = b /\ backupsDir' = d
    /\ log' = log \o msgs
    /\ hist' = [name |-> name, ok |-> TRUE, at |-> clock, before |-> Fs,
                after |-> [live |-> l, backups |-> b, dir |-> d]]
    /\ UNCHANGED <<clock, propagated, leaked, pre, StatsVars, Counters>>

(* lines 4-5 *)
StartRun ==
    /\ pc = "Idle" /\ runs < MaxRuns
    /\ pc' = "Open"
    /\ runs' = runs + 1
    /\ log' = <<"Starting">>
    /\ sevenDaysAgo' = 0 /\ oneDayAgo' = 0 /\ now' = 0
    /\ initialSize' = 0 /\ finalSize' = 0
    /\ backupName' = <<>>
    /\ pre' = Fs
    /\ hist' = [name |-> "Start", ok |-> TRUE, at |-> clock, before |-> Fs,
                after |-> Fs]
    /\ UNCHANGED <<clock, live, backups, backupsDir, handles, leaked, propagated,
                   renamed, StatsVars, envSteps, nextId>>

(* line 8 *)
Open ==
    /\ Did("Open", "Pragma", OpenDatabase(live), backups, backupsDir, <<>>)
    /\ handles' = handles \cup {"db"}
    /\ UNCHANGED <<Locals, renamed>>

(* line 11 *)
Pragma ==
    /\ Did("Pragma", "InitSize", PragmaWal(live), backups, backupsDir, <<>>)
    /\ UNCHANGED <<handles, Locals, renamed>>

(* lines 14-15 *)
InitSize ==
    /\ Did("InitSize", "AgeDelete", live, backups, backupsDir, <<"InitialSize">>)
    /\ initialSize' = FileSize(live)
    /\ UNCHANGED <<handles, sevenDaysAgo, oneDayAgo, now, finalSize, backupName,
                   renamed>>

(* lines 18-20; the DELETE fails when the file has no events table *)
AgeDelete ==
    /\ "events" \in live.tables
    /\ sevenDaysAgo' = clock - SEVEN_DAYS
    /\ Did("AgeDelete", "Truncate",
           [live EXCEPT !.events = AgeDeleteRows(@, sevenDaysAgo')],
           backups, backupsDir, <<"Deleted">>)
    /\ UNCHANGED <<handles, oneDayAgo, now, initialSize, finalSize, backupName,
                   renamed>>

(* lines 23-36 *)
Truncate ==
    /\ "events" \in live.tables
    /\ oneDayAgo' = clock - ONE_DAY
    /\ Did("Truncate", "ExpireShares",
           [live EXCEPT !.events = TruncateRows(@, oneDayAgo')],
           backups, backupsDir, <<"Truncated">>)
    /\ UNCHANGED <<handles, sevenDaysAgo, now, initialSize, finalSize, backupName,
                   renamed>>

(* lines 39-44 *)
ExpireShares ==
    /\ "theme_shares" \in live.tables
    /\ now' = clock
    /\ Did("ExpireShares", "Vacuum",
           [live EXCEPT !.shares = ExpireRows(@, now')],
           backups, backupsDir, <<"ExpiredShares">>)
    /\ UNCHANGED <<handles, sevenDaysAgo, oneDayAgo, initialSize, finalSize,
                   backupName, renamed>>

(* lines 47-48: the rewritten file is no larger than the file was *)
Vacuum ==
    /\ \E z \in {x \in SizeSet \cup {live.size} : x <= live.size} :
          Did("Vacuum", "Reindex", [live EXCEPT !.size = z], backups, backupsDir,
              <<"Vacuum">>)
    /\ UNCHANGED <<handles, Locals, renamed>>

(* lines 51-52 *)
Reindex ==
    /\ Did("Reindex", "Analyze", live, backups, backupsDir, <<"Reindexing">>)
    /\ UNCHANGED <<handles, Locals, renamed>>

(* line 55 *)
Analyze ==
    /\ Did("Analyze", "Close", live, backups, backupsDir, <<>>)
    /\ UNCHANGED <<handles, Locals, renamed>>

(* line 57 *)
Close ==
    /\ Did("Close", "FinalSize", live, backups, backupsDir, <<>>)
    /\ handles' = handles \ {"db"}
    /\ UNCHANGED <<Locals, renamed>>

(* lines 60-62 *)
FinalSize ==
    /\ Did("FinalSize", "SizeCheck", live, backups, backupsDir,
           <<"FinalSize", "SpaceSaved">>)
    /\ finalSize' = FileSize(live)
    /\ UNCHANGED <<handles, sevenDaysAgo, oneDayAgo, now, initialSize, backupName,
                   renamed>>

(* lines 65-66 *)
SizeCheck ==
    /\ IF Oversized(finalSize)
       THEN Did("SizeCheck", "Mkdir", live, backups, backupsDir, <<"CreatingBackup">>)
       ELSE Did("SizeCheck", "Done", live, backups, backupsDir, <<>>)
    /\ UNCHANGED <<handles, Locals, renamed>>

(* lines 69-71 *)
Mkdir ==
    /\ Did("Mkdir", "Rename", live, backups, TRUE, <<>>)
    /\ UNCHANGED <<handles, Locals, renamed>>

(* lines 73-76; the rename fails when there is no file to move *)
Rename ==
    /\ live.exists /\ backupsDir
    /\ backupName' = BackupNameOf(clock)
    /\ renamed' = live
    /\ Did("Rename", "NewOpen", NoFile, RenameInto(backups, backupName', live),
           backupsDir, <<"CreatedBackup">>)
    /\ UNCHANGED <<handles, sevenDaysAgo, oneDayAgo, now, initialSize, finalSize>>

(* line 79 *)
NewOpen ==
    /\ Did("NewOpen", "NewPragma", OpenDatabase(live), backups, backupsDir, <<>>)
    /\ handles' = handles \cup {"newDb"}
    /\ UNCHANGED <<Locals, renamed>>

(* lines 82-83 *)
NewPragma ==
    /\ Did("NewPragma", "CreateEvents", PragmaWal(live), backups, backupsDir, <<>>)
    /\ UNCHANGED <<handles, Locals, renamed>>

(* lines 86-97 *)
CreateEvents ==
    /\ Did("CreateEvents", "CreateThemes", CreateTable(live, "events"), backups,
           backupsDir, <<>>)
    /\ UNCHANGED <<handles, Locals, renamed>>

(* lines 100-117 *)
CreateThemes ==
    /\ Did("CreateThemes", "CreateShares", CreateTable(live, "themes"), backups,
           backupsDir, <<>>)
    /\ UNCHANGED <<handles, Locals, renamed>>

(* lines 120-132 *)
CreateShares ==
    /\ Did("CreateShares", "CreateRatings", CreateTable(live, "theme_shares"),
           backups, backupsDir, <<>>)
    /\ UNCHANGED <<handles, Locals, renamed>>

(* lines 135-146 *)
CreateRatings ==
    /\ Did("CreateRatings", "CreateIndexes", CreateTable(live, "theme_ratings"),
           backups, backupsDir, <<>>)
    /\ UNCHANGED <<handles, Locals, renamed>>

(* lines 149-157: every index names a table created above *)
CreateIndexes ==
    /\ AllTables \subseteq live.tables
    /\ Did("CreateIndexes", "NewClose", live, backups, backupsDir, <<>>)
    /\ UNCHANGED <<handles, Locals, renamed>>

(* lines 159-161 *)
NewClose ==
    /\ Did("NewClose", "Done", live, backups, backupsDir, <<"FreshDatabase">>)
    /\ handles' = handles \ {"newDb"}
    /\ UNCHANGED <<Locals, renamed>>

(* line 164 *)
Done ==
    /\ Did("Done", "Idle", live, backups, backupsDir, <<"Completed">>)
    /\ UNCHANGED <<handles, Locals, renamed>>

(* a statement throws and has changed nothing: inside the try the catch of
   lines 165-167 logs the error and the function returns, with the handles
   it had opened still open; outside it the exception leaves the function *)
Throw ==
    /\ pc \in Throwing
    /\ IF InTry(pc)
       THEN /\ pc' = AfterCatch(pc)
            /\ log' = Append(log, "Error")
            /\ UNCHANGED propagated
       ELSE /\ pc' = "Idle"
            /\ propagated' = TRUE
            /\ UNCHANGED log
    /\ IF pc' = "Idle"
       THEN leaked' = Saturate(leaked + Cardinality(handles)) /\ handles' = {}
       ELSE UNCHANGED <<leaked, handles>>
    /\ hist' = [name |-> pc, ok |-> FALSE, at |-> clock, before |-> Fs,
                after |-> Fs]
    /\ UNCHANGED <<clock, live, backups, backupsDir, Locals, pre, renamed,
                   StatsVars, Counters>>

----------------------------------------------------------------------------
(* getDatabaseStats *)

(* lines 184-207: the snapshot a successful read returns at instant t *)
Snapshot(f, t) ==
    [size            |-> FileSize(f),
     totalEvents     |-> Cardinality(f.events),
     eventsLast7Days |-> Cardinality({e \in f.events : e.timestamp > t - SEVEN_DAYS}),
     oldEvents       |-> Cardinality({e \in f.events : e.timestamp < t - SEVEN_DAYS}),
     largePayloads   |-> Cardinality({e \in f.events : Length(e.payload) > PAYLOAD_LIMIT}),
     lastCleanup     |-> <<"at", ToISOString(t)>>]

(* mutant: the database opened ahead of the try *)
StatsInTryAfterOpen(line) == line > 181 /\ line < 208

(* try { ... } catch of getDatabaseStats spans lines 180 to 208 *)
StatsInTry(line) == line > 180 /\ line < 208

(* the statements of getDatabaseStats the environment can make throw:
   new Database (181) and the first query on events (188) *)
StatsThrowLines == {181, 188}

(* the whole call, made while no run is on the stack (both functions are
   synchronous); failAt = 0 when the environment makes nothing fail, and the
   query of line 188 fails by itself when the file has no events table *)
GetDatabaseStats ==
    \E failAt \in {0} \cup StatsThrowLines :
      LET opened  == failAt # 181
          file    == IF opened THEN OpenDatabase(live) ELSE live
          threwAt == IF failAt = 0 /\ "events" \notin file.tables THEN 188 ELSE failAt
          outcome == IF threwAt = 0 THEN "returned"
                     ELSE IF StatsInTry(threwAt) THEN "caught" ELSE "propagated"
      IN  /\ pc = "Idle"
          /\ envSteps < MaxEnvSteps
          /\ envSteps' = envSteps + 1
          /\ live' = file
          /\ statsOutcome' = outcome
          /\ stats' = CASE outcome = "returned" -> Snapshot(file, clock)
                        [] outcome = "caught" -> Sentinel
                        [] OTHER -> stats
          /\ leaked' = IF threwAt = 188 THEN Saturate(leaked + 1) ELSE leaked
          /\ statsHist' = [threwAt |-> threwAt, at |-> clock, before |-> Fs,
                           after |-> [live |-> file, backups |-> backups,
                                      dir |-> backupsDir]]
          /\ UNCHANGED <<clock, backups, backupsDir, pc, log, Locals, handles,
                         propagated, pre, hist, renamed, runs, nextId>>

----------------------------------------------------------------------------
(* The environment *)

InsertPayloads ==
    { RawPayload(12000, Absent, Member(Str("s3", 36)), Member(Str("PostToolUse", 11))) }

(* the ingestion server stores an event stamped with the current time; the
   file keeps its size or grows past the rotation limit *)
InsertEvent ==
    /\ envSteps < MaxEnvSteps
    /\ live.exists /\ "events" \in live.tables
    /\ \E p \in InsertPayloads, z \in {live.size, ROTATE_LIMIT + 1} :
          live' = [live EXCEPT !.events = @ \cup {EventRow(nextId, clock, p)},
                               !.size = z]
    /\ envSteps' = envSteps + 1
    /\ nextId' = nextId + 1
    /\ UNCHANGED <<clock, backups, backupsDir, pc, log, Locals, handles, leaked,
                   propagated, pre, hist, renamed, StatsVars, runs>>

(* the statements that read the clock (lines 18, 23, 39, 73) *)
ClockReaders == {"AgeDelete", "Truncate", "ExpireShares", "Rename"}

(* a millisecond passes, between runs or ahead of a reading of the clock *)
Tick ==
    /\ envSteps < MaxEnvSteps
    /\ pc \in ClockReaders \cup {"Idle"}
    /\ clock' = clock + 1
    /\ envSteps' = envSteps + 1
    /\ UNCHANGED <<live, backups, backupsDir, pc, log, Locals, handles, leaked,
                   propagated, pre, hist, renamed, StatsVars, runs, nextId>>

(* the statements of one run *)
RunStep ==
    \/ Open \/ Pragma \/ InitSize
    \/ AgeDelete \/ Truncate \/ ExpireShares
    \/ Vacuum \/ Reindex \/ Analyze \/ Close
    \/ FinalSize \/ SizeCheck
    \/ Mkdir \/ Rename
    \/ NewOpen \/ NewPragma \/ CreateEvents \/ CreateThemes \/ CreateShares
    \/ CreateRatings \/ CreateIndexes \/ NewClose \/ Done
    \/ Throw

Next ==
    \/ StartRun \/ RunStep
    \/ GetDatabaseStats \/ InsertEvent \/ Tick

Spec == Init /\ [][Next]_vars

(* cleanupEventsDB is synchronous: once called it runs until it returns *)
FairSpec == Spec /\ WF_vars(RunStep)

----------------------------------------------------------------------------
(* The claims *)

Range(s) == {s[i] : i \in 1..Len(s)}

(* the current run has printed message m *)
Logged(m) == m \in Range(log)

PreservedKeys == {"source_app", "session_id", "hook_event_name"}

(* C1. Age retention: the age-deletion step removes every event whose
   timestamp is strictly older than the clock it read minus 7 days and
   leaves every other event in place with the same fields; from then on no
   event older than that cutoff is in the live store. *)
C1_AgeRetention ==
    /\ (hist.name = "AgeDelete" /\ hist.ok) =>
          /\ sevenDaysAgo = hist.at - 7 * 24 * 60 * 60 * 1000
          /\ \A e \in hist.before.live.events :
                IF e.timestamp < hist.at - 7 * 24 * 60 * 60 * 1000
                THEN \A a \in hist.after.live.events : a.id # e.id
                ELSE e \in hist.after.live.events
    /\ Logged("Deleted") =>
          \A e \in live.events : e.timestamp >= sevenDaysAgo

(* C1 witness: the step ran on a store holding an event older than the
   cutoff, which is gone, and a younger one, which is still there *)
C1_Witness ==
    /\ hist.name = "AgeDelete" /\ hist.ok
    /\ \E e \in hist.before.live.events :
          e.timestamp < hist.at - 7 * 24 * 60 * 60 * 1000
          /\ e \notin hist.after.live.events
    /\ \E e \in hist.before.live.events :
          e.timestamp >= hist.at - 7 * 24 * 60 * 60 * 1000
          /\ e \in hist.after.live.events

(* C2. Truncation marker: the truncation step replaces the payload of every
   event longer than 10,000 and older than the clock it read minus 1 day by
   a marker with truncated = true, original_size = the old LENGTH, and
   source_app, session_id, hook_event_name as json_extract read them from
   the old payload; from then on every such payload in the live store is a
   marker. *)
C2_TruncationMarker ==
    /\ (hist.name = "Truncate" /\ hist.ok) =>
          \A e \in hist.before.live.events :
             (e.payload.len > 10000 /\ e.timestamp < hist.at - 24 * 60 * 60 * 1000) =>
                \E a \in hist.after.live.events :
                   /\ a.id = e.id
                   /\ a.payload.truncated = 1
                   /\ a.payload.original_size = e.payload.len
                   /\ \A k \in PreservedKeys :
                         /\ a.payload[k].present
                         /\ a.payload[k].value =
                               IF e.payload[k].present THEN e.payload[k].value ELSE NULL
    /\ Logged("Truncated") =>
          \A e \in live.events :
             (e.payload.len > 10000 /\ e.timestamp < oneDayAgo) => e.payload.truncated = 1

(* C2 witness: the step ran on an old large payload that had a session_id
   and no source_app member *)
C2_Witness ==
    /\ hist.name = "Truncate" /\ hist.ok
    /\ \E e \in hist.before.live.events :
          /\ e.payload.len > 10000 /\ e.timestamp < hist.at - 24 * 60 * 60 * 1000
          /\ ~e.payload.source_app.present
          /\ e.payload.session_id.present /\ ~e.payload.session_id.value.null
          /\ e \notin hist.after.live.events

(* C3. Truncation is idempotent: applying the UPDATE again, with the same
   cutoff, to the rows the truncation step left changes nothing. *)
C3_TruncationIdempotent ==
    (hist.name = "Truncate" /\ hist.ok) =>
        TruncateRows(hist.after.live.events, oneDayAgo) = hist.after.live.events

(* the last run ran to its last statement and has returned *)
RunCompleted == pc = "Idle" /\ hist.name = "Done"

(* the backup file the current run wrote *)
BackupFile == (CHOOSE b \in backups : b.name = backupName).file

(* C4, as claimed. Share expiry: after a completed run no share with
   non-null expiry < now is in the live store, and every share that had a
   null or a future expiry before the run is in the live store, unchanged. *)
C4_ShareExpiry ==
    RunCompleted =>
       /\ \A s \in live.shares : s.expiresNull \/ s.expiresAt >= now
       /\ \A s \in pre.live.shares :
             (s.expiresNull \/ s.expiresAt > clock) => s \in live.shares

(* C4, amended. Once the share-expiry step has run, no share with non-null
   expiry < now is in the live store, and every share that had a null or a
   future expiry before the run is present, unchanged, in the live store
   or, once the run has renamed the file, in the backup file it wrote. *)
C4_ShareExpiryAmended ==
    Logged("ExpiredShares") =>
       /\ \A s \in live.shares : s.expiresNull \/ s.expiresAt >= now
       /\ \A s \in pre.live.shares :
             (s.expiresNull \/ s.expiresAt > now) =>
                IF Logged("CreatedBackup") THEN s \in BackupFile.shares
                                           ELSE s \in live.shares

(* C4 witness: a completed run that rotated; the never-expiring share it
   found is in the backup and not in the live store *)
C4_Witness ==
    /\ RunCompleted /\ Logged("CreatedBackup")
    /\ \E s \in pre.live.shares :
          s.expiresNull /\ s \in BackupFile.shares /\ s \notin live.shares

(* C5. Rotation when oversized: at the end of a completed run that measured
   more than 50 MB after compaction, exactly one backup file is new, the
   backup file holds what the live file held when it was renamed, and the
   live path holds a file with the four tables and none of the old rows
   (event rows inserted since the rename apart). *)
C5_RotationWhenOversized ==
    (RunCompleted /\ finalSize > 50 * 1024 * 1024) =>
       /\ Cardinality(backups) = Cardinality(pre.backups) + 1
       /\ \E b \in backups : b.name = backupName /\ b.file = renamed
       /\ live.exists
       /\ live.tables = {"events", "themes", "theme_shares", "theme_ratings"}
       /\ live.shares = {} /\ live.themes = {} /\ live.ratings = {}
       /\ \A e \in live.events : \A r \in renamed.events : e.id # r.id

(* C6. No rotation at or below the threshold: once a run has measured a
   final size <= 50 MB (50 MB itself included) it only reaches the size
   check, the closing message and the return; it creates no backup file and
   no backup directory, and those statements leave the live file as it was. *)
C6_NoRotationAtOrBelow ==
    (Logged("FinalSize") /\ finalSize <= 50 * 1024 * 1024) =>
       /\ pc \in {"SizeCheck", "Done", "Idle"}
       /\ backups = pre.backups /\ backupsDir = pre.dir
       /\ ~Logged("CreatingBackup") /\ ~Logged("CreatedBackup")
       /\ live.exists
       /\ hist.name \in {"SizeCheck", "Done"} => hist.after = hist.before

(* C6 witness: a run completed after measuring exactly 50 MB *)
C6_Witness ==
    RunCompleted /\ finalSize = 50 * 1024 * 1024 /\ hist.before.live.events # {}

(* C7. Rename failure: when renameSync throws, the run is over (no retry,
   no new database), the backups are what they were and hold no file of the
   name the rename would have used, the live file still holds all it held,
   and the log shows the retention counts, the compaction and the final
   size, then the error, with no backup and no success message. *)
C7_RenameFailure ==
    (hist.name = "Rename" /\ ~hist.ok) =>
       /\ pc = "Idle"
       /\ backups = hist.before.backups
       /\ \A b \in backups : b.name # BackupNameOf(hist.at) \/ b \in pre.backups
       /\ live.exists
       /\ live.tables = hist.before.live.tables
       /\ hist.before.live.events \subseteq live.events
       /\ live.shares = hist.before.live.shares
       /\ live.themes = hist.before.live.themes
       /\ live.ratings = hist.before.live.ratings
       /\ {"Deleted", "Truncated", "ExpiredShares", "Vacuum", "FinalSize",
           "CreatingBackup"} \subseteq Range(log)
       /\ log[Len(log)] = "Error"
       /\ Range(log) \cap {"CreatedBackup", "FreshDatabase", "Completed"} = {}

(* C7 witness: the rename threw on a live file that holds a truncated event *)
C7_Witness ==
    /\ hist.name = "Rename" /\ ~hist.ok
    /\ \E e \in live.events : e.payload.truncated = 1

(* C8. A run never lets a failure out and always returns: whatever
   statement throws, the error is logged and the run is over; and a run
   that has started reaches Idle. *)
C8_RunNeverPropagates ==
    /\ [](/\ ~propagated
          /\ ~hist.ok => (pc = "Idle" /\ Len(log) > 0 /\ log[Len(log)] = "Error"))
    /\ (pc # "Idle") ~> (pc = "Idle")

(* C8 witness: the last statement that can throw, newDb.close(), threw *)
C8_Witness ==
    hist.name = "NewClose" /\ ~hist.ok /\ pc = "Idle" /\ ~propagated

(* C9. getDatabaseStats is read-only: the files are after the call what
   they were before it. *)
C9_StatsReadOnly ==
    statsHist.after = statsHist.before

(* C10. Stats failure is absorbed: when a statement of getDatabaseStats
   throws, the call returns the zero snapshot. *)
C10_StatsFailureAbsorbed ==
    /\ statsOutcome # "propagated"
    /\ statsHist.threwAt # 0 =>
          /\ statsOutcome = "caught"
          /\ stats = [size |-> 0, totalEvents |-> 0, eventsLast7Days |-> 0,
                      oldEvents |-> 0, largePayloads |-> 0,
                      lastCleanup |-> <<"Never">>]

(* C10 witness: the count query threw on a file that has no events table *)
C10_Witness ==
    /\ statsHist.threwAt = 188
    /\ statsHist.before.live.exists
    /\ "events" \notin statsHist.before.live.tables
    /\ statsOutcome = "caught"

(* getDatabaseStats has returned a snapshot of the file the last run left,
   a run that completed without rotating, read at the instant the run read *)
StatsAfterPlainRun ==
    /\ RunCompleted /\ ~Logged("CreatedBackup")
    /\ statsOutcome = "returned"
    /\ statsHist.before.live = hist.after.live
    /\ sevenDaysAgo = statsHist.at - 7 * 24 * 60 * 60 * 1000
    /\ oneDayAgo = statsHist.at - 24 * 60 * 60 * 1000

(* C11. Stats after a run that did not rotate, at the same instant:
   oldEvents = 0, totalEvents = the events before the run less those older
   than 7 days, eventsLast7Days = totalEvents, largePayloads = the
   surviving events over 10,000 that are not older than 1 day. *)
C11_StatsAfterRun ==
    StatsAfterPlainRun =>
       /\ stats.oldEvents = 0
       /\ stats.totalEvents =
             Cardinality(pre.live.events)
             - Cardinality({e \in pre.live.events : e.timestamp < sevenDaysAgo})
       /\ stats.eventsLast7Days = stats.totalEvents
       /\ stats.largePayloads =
             Cardinality({e \in pre.live.events :
                             /\ e.timestamp >= sevenDaysAgo
                             /\ e.timestamp >= oneDayAgo
                             /\ e.payload.len > 10000})

(* C12. Truncation frame: the truncation step leaves every event whose
   payload is at most 10,000 long, or whose timestamp is at or after the
   clock it read minus 1 day, exactly as it was; it adds and removes no
   row, changes no column other than payload, and touches no other table. *)
C12_TruncationFrame ==
    (hist.name = "Truncate" /\ hist.ok) =>
       /\ \A e \in hist.before.live.events :
             (e.payload.len <= 10000 \/ e.timestamp >= hist.at - 24 * 60 * 60 * 1000)
                => e \in hist.after.live.events
       /\ \A e \in hist.before.live.events :
             \E a \in hist.after.live.events : [a EXCEPT !.payload = e.payload] = e
       /\ Cardinality(hist.after.live.events) = Cardinality(hist.before.live.events)
       /\ [hist.after.live EXCEPT !.events = {}] = [hist.before.live EXCEPT !.events = {}]
       /\ hist.after.backups = hist.before.backups

(* C12 witness: the step ran on an old large payload, which it replaced,
   and on a large payload younger than a day, which it kept *)
C12_Witness ==
    /\ hist.name = "Truncate" /\ hist.ok
    /\ \E e \in hist.before.live.events :
          /\ e.payload.len > 10000 /\ e.timestamp >= hist.at - 24 * 60 * 60 * 1000
          /\ e \in hist.after.live.events
    /\ \E e \in hist.before.live.events :
          /\ e.payload.len > 10000 /\ e.timestamp < hist.at - 24 * 60 * 60 * 1000
          /\ e \notin hist.after.live.events

(* the console messages of a run that went through, without and with
   rotation, in the order of the source *)
PlainLog ==
    <<"Starting", "InitialSize", "Deleted", "Truncated", "ExpiredShares",
      "Vacuum", "Reindexing", "FinalSize", "SpaceSaved", "Completed">>

RotatedLog ==
    <<"Starting", "InitialSize", "Deleted", "Truncated", "ExpiredShares",
      "Vacuum", "Reindexing", "FinalSize", "SpaceSaved", "CreatingBackup",
      "CreatedBackup", "FreshDatabase", "Completed">>

(* the statements of a run in the order control takes them *)
StepOrder ==
    {<<"Start", "Open">>, <<"Open", "Pragma">>, <<"Pragma", "InitSize">>,
     <<"InitSize", "AgeDelete">>, <<"AgeDelete", "Truncate">>,
     <<"Truncate", "ExpireShares">>, <<"ExpireShares", "Vacuum">>,
     <<"Vacuum", "Reindex">>, <<"Reindex", "Analyze">>, <<"Analyze", "Close">>,
     <<"Close", "FinalSize">>, <<"FinalSize", "SizeCheck">>,
     <<"SizeCheck", "Mkdir">>, <<"SizeCheck", "Done">>, <<"Mkdir", "Rename">>,
     <<"Rename", "NewOpen">>, <<"NewOpen", "NewPragma">>,
     <<"NewPragma", "CreateEvents">>, <<"CreateEvents", "CreateThemes">>,
     <<"CreateThemes", "CreateShares">>, <<"CreateShares", "CreateRatings">>,
     <<"CreateRatings", "CreateIndexes">>, <<"CreateIndexes", "NewClose">>,
     <<"NewClose", "Done">>, <<"Done", "Idle">>}

IsPrefix(s, t) == Len(s) <= Len(t) /\ \A i \in 1..Len(s) : s[i] = t[i]

(* C13. Step ordering: a statement that completed is followed by the next
   one of the order age deletion, truncation, share expiry, VACUUM,
   REINDEX, ANALYZE, size check, then either the end of the run or
   directory, rename, re-creation and the end of the run; the backup steps
   are entered only from the size check and only with a final size above
   50 MB; the re-creation is entered only after a rename that succeeded;
   the messages of a run appear in that order. *)
C13_StepOrdering ==
    /\ (hist.ok /\ hist.name # "none") => <<hist.name, pc>> \in StepOrder
    /\ pc = "Mkdir" => (hist.name = "SizeCheck" /\ finalSize > 50 * 1024 * 1024)
    /\ pc \in {"Mkdir", "Rename", "NewOpen", "NewPragma", "CreateEvents",
               "CreateThemes", "CreateShares", "CreateRatings", "CreateIndexes",
               "NewClose"} => finalSize > 50 * 1024 * 1024
    /\ pc = "NewOpen" =>
          /\ hist.name = "Rename" /\ hist.ok
          /\ ~live.exists
          /\ \E b \in backups : b.name = backupName /\ b.file = renamed
    /\ (hist.ok /\ hist.name # "none") =>
          (IsPrefix(log, PlainLog) \/ IsPrefix(log, RotatedLog))
    /\ RunCompleted => log \in {PlainLog, RotatedLog}

(* C13 witness: the second run of the process went through the rotation
   to its end, with no backup there before it *)
C13_Witness ==
    /\ RunCompleted /\ log = RotatedLog /\ runs = 2
    /\ finalSize > 50 * 1024 * 1024
    /\ pre.backups = {}

(* C14. A failure aborts without rollback: when a statement throws, the run
   is over with the error as its last message and only the messages of the
   statements before it; the failing statement changes nothing; and what
   the statements before it did is still there: the events the age
   deletion matched are gone, the payloads the truncation matched are
   markers, the shares the expiry matched are gone, and the file a
   completed rename moved is in the backups. *)
C14_AbortWithoutRollback ==
    ~hist.ok =>
       /\ pc = "Idle"
       /\ hist.after = hist.before
       /\ Len(log) > 1 /\ log[Len(log)] = "Error"
       /\ IsPrefix(SubSeq(log, 1, Len(log) - 1), RotatedLog)
       /\ hist.name = "Open" => log = <<"Starting", "Error">>
       /\ hist.name \in {"Open", "Pragma", "InitSize", "AgeDelete"} =>
             (~Logged("Deleted") /\ ~Logged("Vacuum") /\ ~Logged("CreatingBackup"))
       /\ Logged("Deleted") =>
             \A e \in pre.live.events :
                e.timestamp < sevenDaysAgo =>
                   \A a \in hist.after.live.events : a.id # e.id
       /\ Logged("Truncated") =>
             \A e \in pre.live.events :
                (e.payload.len > 10000 /\ e.timestamp < oneDayAgo) =>
                   \A a \in hist.after.live.events :
                      a.id = e.id => (/\ a.payload.truncated = 1
                                      /\ a.payload.original_size = e.payload.len)
       /\ Logged("ExpiredShares") =>
             \A s \in pre.live.shares :
                (~s.expiresNull /\ s.expiresAt < now) => s \notin hist.after.live.shares
       /\ Logged("CreatedBackup") =>
             \E b \in hist.after.backups : b.name = backupName /\ b.file = renamed

(* C14 witness: the re-creation of the schema threw after the rename, in a
   run whose age deletion had removed an event: the backup is there and
   the event is gone *)
C14_Witness ==
    /\ ~hist.ok /\ hist.name = "CreateThemes" /\ pc = "Idle"
    /\ Logged("CreatedBackup")
    /\ \E e \in pre.live.events : e.timestamp < sevenDaysAgo

(* C15. Themes and ratings are never mutated: once a run is over, the
   theme rows and the rating rows of the live file are the ones it held
   when the run began. *)
C15_ThemesUntouched ==
    (pc = "Idle" /\ runs > 0) =>
       /\ live.themes = pre.live.themes
       /\ live.ratings = pre.live.ratings

(* C16. Live-file invariant: once a run is over, whether it went through,
   rotated or failed, there is a file at the live path and it has the four
   tables. *)
C16_LiveFileInvariant ==
    (pc = "Idle" /\ runs > 0) =>
       /\ live.exists
       /\ live.tables = {"events", "themes", "theme_shares", "theme_ratings"}

(* C17. One backup per rotation: a rename that succeeded has added one file
   to the backups, under a name none of them had. *)
C17_OneBackupPerRotation ==
    (hist.name = "Rename" /\ hist.ok) =>
       /\ Cardinality(hist.after.backups) = Cardinality(hist.before.backups) + 1
       /\ \A b \in hist.before.backups : b.name # backupName

(* the ids of the event rows held by the live file and the backups *)
EventIds(fs) ==
    {e.id : e \in fs.live.events}
       \cup {e.id : e \in UNION {b.file.events : b \in fs.backups}}

(* C18. Event conservation: a statement of a run, completed or failed,
   makes an event row disappear from the live file and the backups
   together only if it is the age deletion and the row's timestamp is
   older than the cutoff it computed. *)
C18_EventConservation ==
    \A e \in hist.before.live.events
          \cup UNION {b.file.events : b \in hist.before.backups} :
       e.id \notin EventIds(hist.after) =>
          /\ hist.name = "AgeDelete"
          /\ e \in hist.before.live.events
          /\ e.timestamp < hist.at - 7 * 24 * 60 * 60 * 1000

(* C19. The counts of a snapshot partition the events: a successful read
   returns totalEvents = eventsLast7Days + oldEvents. *)
C19_StatsPartition ==
    statsOutcome = "returned" =>
       stats.totalEvents = stats.eventsLast7Days + stats.oldEvents

(* C20. Handle release: no handle opened by a run or by getDatabaseStats
   is left open when the operation has returned. *)
C20_HandlesReleased ==
    /\ leaked = 0
    /\ pc = "Idle" => handles = {}

====
